---- MODULE Spec2Model ----
(***************************************************************************)
(* Grompt: a prompt optimizer.  craft_system_message renders a PromptCanvas *)
(* (or a bare prompt) into an instruction string, rephrase_prompt sends it  *)
(* as the only message of one chat-completion request and returns the      *)
(* stripped answer, and two front ends call it: the command line (main)    *)
(* and a Streamlit form (the "Optimize Prompt" button).                    *)
(*                                                                         *)
(* Text is modelled as a sequence of one-character strings, so that        *)
(* formatting, joining, splitting and stripping are computed character by  *)
(* character.  An Optional value is a sequence of length at most one:      *)
(* None is <<>> and a present value x is <<x>>.                            *)
(***************************************************************************)
EXTENDS Integers, Sequences, FiniteSets, TLC

VARIABLES
    pc,             \* where the running front end stands
    frontend,       \* "none", "cli", "ui" or "render": who is running
    environ,        \* os.environ['GROQ_API_KEY'], an Optional text
    argv,           \* the command line main parses
    form,           \* the values of the form's widgets at the click
    call,           \* the arguments of the running rephrase_prompt
    system_message, \* the local system_message of rephrase_prompt, an Optional text
    requests,       \* the chat-completion requests issued in this run
    remote,         \* what the client library or the remote service did with the call
    result,         \* how rephrase_prompt ended: a return value or a raised Exception
    printed,        \* what main wrote, in order
    ui              \* what the form displayed, in order

vars == <<pc, frontend, environ, argv, form, call, system_message, requests, remote, result,
          printed, ui>>

----------------------------------------------------------------------------
(* Bounds of the model *)

\* the longest steps or references list given to the renderer
MaxItems == 2

\* the longest answer text the remote service returns
MaxLen == 3

----------------------------------------------------------------------------
(* Optional values and text *)

None == <<>>

Some(x) == <<x>>

\* Python's truth value of a str or a list: non-empty
Truthy(s) == s # <<>>

\* Python's truth value of an Optional list: neither None nor empty
TruthyOpt(o) == o # None /\ o[1] # <<>>

\* some of the characters str.strip() removes
Whitespace == {" ", "\n", "\t", "\r"}

RECURSIVE Concat(_)
\* the concatenation of a sequence of texts
Concat(parts) ==
    IF parts = <<>> THEN <<>> ELSE Head(parts) \o Concat(Tail(parts))

RECURSIVE Join(_, _)
\* sep.join(items)
Join(sep, items) ==
    IF items = <<>> THEN <<>>
    ELSE IF Len(items) = 1 THEN items[1]
    ELSE items[1] \o sep \o Join(sep, Tail(items))

RECURSIVE lstrip(_)
lstrip(s) ==
    IF s # <<>> /\ Head(s) \in Whitespace THEN lstrip(Tail(s)) ELSE s

RECURSIVE rstrip(_)
rstrip(s) ==
    IF s # <<>> /\ s[Len(s)] \in Whitespace THEN rstrip(SubSeq(s, 1, Len(s) - 1)) ELSE s

\* str.strip(): leading and trailing whitespace removed
strip(s) == rstrip(lstrip(s))

RECURSIVE split(_, _)
\* s.split(sep) for a one-character sep: always at least one piece
split(s, sep) ==
    IF \A i \in 1..Len(s) : s[i] # sep THEN <<s>>
    ELSE LET k == CHOOSE i \in 1..Len(s) : s[i] = sep /\ \A j \in 1..(i - 1) : s[j] # sep
         IN  <<SubSeq(s, 1, k - 1)>> \o split(SubSeq(s, k + 1, Len(s)), sep)

\* sub in s
Contains(s, sub) ==
    \E i \in 0..(Len(s) - Len(sub)) : SubSeq(s, i + 1, i + Len(sub)) = sub

\* all sequences over S of length at most n
SeqsUpTo(S, n) == UNION {[1..k -> S] : k \in 0..n}

----------------------------------------------------------------------------
(* Literal text of the source *)

\* the "None" placeholder of an empty steps or references field
PLACEHOLDER ==
    <<"N", "o", "n", "e">>

STEP_PREFIX ==
    <<"-", " ">>

REFERENCE_SEP ==
    <<",", " ">>

\* the literal pieces of the canvas template, each named after the field that follows it
T_persona ==
    <<"Y", "o", "u", " ", "a", "r", "e", " ", "a", " ">>

T_audience ==
    <<" ", "f", "o", "c", "u", "s", "e", "d", " ", "o", "n", " ", "d", "e", "l", "i", "v",
      "e", "r", "i", "n", "g", " ", "r", "e", "s", "u", "l", "t", "s", " ", "f", "o", "r",
      " ">>

T_task ==
    <<".", "\n", "\n", "T", "a", "s", "k", ":", " ">>

T_steps ==
    <<"\n", "\n", "S", "t", "e", "p", "-", "b", "y", "-", "S", "t", "e", "p", " ", "A", "p",
      "p", "r", "o", "a", "c", "h", ":", "\n">>

T_context ==
    <<"\n", "\n", "C", "o", "n", "t", "e", "x", "t", ":", " ">>

T_references ==
    <<"\n", "\n", "R", "e", "f", "e", "r", "e", "n", "c", "e", "s", ":", " ">>

T_output_format ==
    <<"\n", "\n", "O", "u", "t", "p", "u", "t", " ", "R", "e", "q", "u", "i", "r", "e", "m",
      "e", "n", "t", "s", ":", "\n", "-", " ", "F", "o", "r", "m", "a", "t", ":", " ">>

T_tonality ==
    <<"\n", "-", " ", "T", "o", "n", "e", ":", " ">>

\* the literal pieces of the rephrasing template around the prompt
R_head ==
    <<"Y", "o", "u", " ", "a", "r", "e", " ", "a", " ", "p", "r", "o", "f", "e", "s", "s",
      "i", "o", "n", "a", "l", " ", "p", "r", "o", "m", "p", "t", " ", "e", "n", "g", "i",
      "n", "e", "e", "r", ".", " ", "O", "p", "t", "i", "m", "i", "z", "e", " ", "t", "h",
      "i", "s", " ", "p", "r", "o", "m", "p", "t", " ", "b", "y", " ", "m", "a", "k", "i",
      "n", "g", " ", "i", "t", " ", "c", "l", "e", "a", "r", "e", "r", ",", " ", "m", "o",
      "r", "e", " ", "c", "o", "n", "c", "i", "s", "e", ",", " ", "a", "n", "d", " ", "m",
      "o", "r", "e", " ", "e", "f", "f", "e", "c", "t", "i", "v", "e", ".", "\n", " ", " ",
      " ", " ", "U", "s", "e", "r", " ", "r", "e", "q", "u", "e", "s", "t", ":", " ", "\"">>

R_tail ==
    <<"\"", "\n", " ", " ", " ", " ", "R", "e", "p", "h", "r", "a", "s", "e", "d", ":">>

\* the prefix rephrase_prompt puts before the text of the exception it caught
ERR_PREFIX ==
    <<"P", "r", "o", "m", "p", "t", " ", "e", "n", "g", "i", "n", "e", "e", "r", "i", "n",
      "g", " ", "e", "r", "r", "o", "r", ":", " ">>

\* str() of the IndexError of choices[0] on an empty list
INDEX_ERROR ==
    <<"l", "i", "s", "t", " ", "i", "n", "d", "e", "x", " ", "o", "u", "t", " ", "o", "f",
      " ", "r", "a", "n", "g", "e">>

\* str() of the AttributeError of None.strip()
ATTRIBUTE_ERROR ==
    <<"'", "N", "o", "n", "e", "T", "y", "p", "e", "'", " ", "o", "b", "j", "e", "c", "t",
      " ", "h", "a", "s", " ", "n", "o", " ", "a", "t", "t", "r", "i", "b", "u", "t", "e",
      " ", "'", "s", "t", "r", "i", "p", "'">>

\* what main prints
MAIN_OK ==
    <<"R", "e", "p", "h", "r", "a", "s", "e", "d", " ", "p", "r", "o", "m", "p", "t", ":">>

MAIN_ERR ==
    <<"E", "r", "r", "o", "r", ":", " ">>

\* the head of what argparse writes to stderr before it exits
USAGE_ERROR ==
    <<"u", "s", "a", "g", "e", ":", " ", "G", "r", "o", "m", "p", "t", ".", "p", "y">>

\* the texts the form shows
UI_NO_KEY_SIDEBAR ==
    <<"P", "l", "e", "a", "s", "e", " ", "e", "n", "t", "e", "r", " ", "y", "o", "u", "r",
      " ", "G", "R", "O", "Q", " ", "A", "P", "I", " ", "K", "e", "y", " ", "t", "o", " ",
      "u", "s", "e", " ", "t", "h", "e", " ", "a", "p", "p", ".">>

UI_NO_KEY ==
    <<"P", "l", "e", "a", "s", "e", " ", "e", "n", "t", "e", "r", " ", "y", "o", "u", "r",
      " ", "G", "R", "O", "Q", " ", "A", "P", "I", " ", "K", "e", "y", " ", "i", "n", " ",
      "t", "h", "e", " ", "s", "i", "d", "e", "b", "a", "r", ".">>

UI_NO_PROMPT ==
    <<"P", "l", "e", "a", "s", "e", " ", "e", "n", "t", "e", "r", " ", "a", " ", "p", "r",
      "o", "m", "p", "t", " ", "t", "o", " ", "o", "p", "t", "i", "m", "i", "z", "e", ".">>

UI_IMPORT_ERR ==
    <<"U", "n", "a", "b", "l", "e", " ", "t", "o", " ", "i", "m", "p", "o", "r", "t", " ",
      "'", "G", "r", "o", "m", "p", "t", "'", ":", " ">>

UI_OPTIMIZED ==
    <<"O", "p", "t", "i", "m", "i", "z", "e", "d", " ", "P", "r", "o", "m", "p", "t", ":">>

\* two of the options of the Output Format select box
FMT_NATURAL_TEXT ==
    <<"N", "a", "t", "u", "r", "a", "l", " ", "T", "e", "x", "t">>

FMT_CODE ==
    <<"C", "o", "d", "e">>

----------------------------------------------------------------------------
(* prompt_canvas.PromptCanvas and the renderer *)

PromptCanvas(persona, audience, task, steps, context, references, output_format, tonality) ==
    [persona |-> persona, audience |-> audience, task |-> task, steps |-> steps,
     context |-> context, references |-> references, output_format |-> output_format,
     tonality |-> tonality]

\* '\n'.join(f'- {step}' for step in canvas.steps) if canvas.steps else "None"
steps_str(canvas) ==
    IF TruthyOpt(canvas.steps)
    THEN Join(<<"\n">>, [i \in 1..Len(canvas.steps[1]) |-> STEP_PREFIX \o canvas.steps[1][i]])
    ELSE PLACEHOLDER

\* a renderer slip: the references joined by "," with no space after it
references_str_no_space(canvas) ==
    IF TruthyOpt(canvas.references)
    THEN Join(<<",">>, canvas.references[1])
    ELSE PLACEHOLDER

\* ', '.join(canvas.references) if canvas.references else "None"
references_str(canvas) ==
    IF TruthyOpt(canvas.references)
    THEN Join(REFERENCE_SEP, canvas.references[1])
    ELSE PLACEHOLDER

get_rephrased_user_prompt(prompt) == R_head \o prompt \o R_tail

\* a renderer slip: the template ends after the format line, the tone is left out
craft_system_message_no_tonality(canvas, prompt) ==
    IF canvas # None
    THEN LET c == canvas[1]
         IN  Concat(<<T_persona, c.persona, T_audience, c.audience, T_task, c.task,
                      T_steps, steps_str(c), T_context, c.context,
                      T_references, references_str(c),
                      T_output_format, c.output_format>>)
    ELSE get_rephrased_user_prompt(prompt)

\* a renderer slip: the canvas message is followed by the user's prompt
craft_system_message_with_prompt(canvas, prompt) ==
    IF canvas # None
    THEN LET c == canvas[1]
         IN  Concat(<<T_persona, c.persona, T_audience, c.audience, T_task, c.task,
                      T_steps, steps_str(c), T_context, c.context,
                      T_references, references_str(c),
                      T_output_format, c.output_format, T_tonality, c.tonality,
                      <<"\n", "\n">>, prompt>>)
    ELSE get_rephrased_user_prompt(prompt)

\* canvas is an Optional PromptCanvas; a PromptCanvas object is always true
craft_system_message(canvas, prompt) ==
    IF canvas # None
    THEN LET c == canvas[1]
         IN  Concat(<<T_persona, c.persona, T_audience, c.audience, T_task, c.task,
                      T_steps, steps_str(c), T_context, c.context,
                      T_references, references_str(c),
                      T_output_format, c.output_format, T_tonality, c.tonality>>)
    ELSE get_rephrased_user_prompt(prompt)

----------------------------------------------------------------------------
(* rephrase_prompt *)

\* how a call ends: nothing yet, a returned text, or a raised Exception with its message
NoResult == [kind |-> "none", text |-> <<>>]

Returned(text) == [kind |-> "return", text |-> text]

Raised(text) == [kind |-> "raise", text |-> text]

\* the keyword arguments of groq.chat.completions.create
create_request(message, args) ==
    [messages |-> <<[role |-> "user", content |-> message]>>,
     model |-> args.model,
     temperature |-> args.temperature,
     max_tokens |-> args.max_tokens]

\* an extraction slip: only the leading whitespace is removed
extract_lstrip(response) ==
    IF response.choices = <<>> THEN Raised(INDEX_ERROR)
    ELSE IF response.choices[1].message.content = None THEN Raised(ATTRIBUTE_ERROR)
    ELSE Returned(lstrip(response.choices[1].message.content[1]))

\* response.choices[0].message.content.strip(), or the exception it raises
extract(response) ==
    IF response.choices = <<>> THEN Raised(INDEX_ERROR)
    ELSE IF response.choices[1].message.content = None THEN Raised(ATTRIBUTE_ERROR)
    ELSE Returned(strip(response.choices[1].message.content[1]))

\* a handler slip: the exception is raised again as it came
except_handler_unwrapped(inner) == inner

\* except Exception as e: raise Exception(f"Prompt engineering error: {str(e)}")
except_handler(inner) ==
    IF inner.kind = "raise" THEN Raised(ERR_PREFIX \o inner.text) ELSE inner

\* what the remote side did with the request: an exception of the client, or a response
remote_result(outcome) ==
    IF outcome.kind = "response" THEN extract(outcome) ELSE Raised(outcome.text)

\* a slip in the try block: the steps of the canvas are consumed while the request
\* is built
rephrase_prompt_request_consuming(client) ==
    /\ pc = "call"
    /\ IF client.ok
       THEN LET message == craft_system_message(call[1].canvas, call[1].prompt)
            IN  /\ system_message' = Some(message)
                /\ requests' = Append(requests, create_request(message, call[1]))
                /\ pc' = "inflight"
                /\ call' = IF call[1].canvas = None THEN call
                           ELSE Some([call[1] EXCEPT !.canvas[1].steps = Some(<<>>)])
                /\ UNCHANGED <<remote, result>>
       ELSE /\ remote' = Some([kind |-> "client_error", text |-> client.text, choices |-> <<>>])
            /\ result' = except_handler(Raised(client.text))
            /\ pc' = "raised"
            /\ UNCHANGED <<system_message, requests, call>>
    /\ UNCHANGED <<frontend, environ, argv, form, printed, ui>>

\* the try block up to the request: Groq() may raise; otherwise the message is
\* rendered and the one request goes out
rephrase_prompt_request(client) ==
    /\ pc = "call"
    /\ IF client.ok
       THEN LET message == craft_system_message(call[1].canvas, call[1].prompt)
            IN  /\ system_message' = Some(message)
                /\ requests' = Append(requests, create_request(message, call[1]))
                /\ pc' = "inflight"
                /\ UNCHANGED <<remote, result>>
       ELSE /\ remote' = Some([kind |-> "client_error", text |-> client.text, choices |-> <<>>])
            /\ result' = except_handler(Raised(client.text))
            /\ pc' = "raised"
            /\ UNCHANGED <<system_message, requests>>
    /\ UNCHANGED <<frontend, environ, argv, form, call, printed, ui>>

\* a retry: after a request that raised, the same request is issued once more
rephrase_prompt_response_retry(outcome) ==
    /\ pc = "inflight"
    /\ IF outcome.kind = "error" /\ Len(requests) < 2
       THEN /\ requests' = Append(requests, requests[1])
            /\ UNCHANGED <<pc, remote, result>>
       ELSE /\ remote' = Some(outcome)
            /\ result' = except_handler(remote_result(outcome))
            /\ pc' = IF result'.kind = "raise" THEN "raised" ELSE "returned"
            /\ UNCHANGED requests
    /\ UNCHANGED <<frontend, environ, argv, form, call, system_message, printed, ui>>

\* the request ends, with an exception or a response, and rephrase_prompt with it
rephrase_prompt_response(outcome) ==
    /\ pc = "inflight"
    /\ remote' = Some(outcome)
    /\ result' = except_handler(remote_result(outcome))
    /\ pc' = IF result'.kind = "raise" THEN "raised" ELSE "returned"
    /\ UNCHANGED <<frontend, environ, argv, form, call, system_message, requests, printed, ui>>

----------------------------------------------------------------------------
(* The command line: main *)

Stdout(text) == [stream |-> "stdout", text |-> text]

Stderr(text) == [stream |-> "stderr", text |-> text]

DEFAULT_MODEL == "llama-3.3-70b-versatile"

\* in tenths
DEFAULT_TEMPERATURE == 5

DEFAULT_MAX_TOKENS == 1024

\* parser.parse_args(): the prompt is required, --temperature must read as a float
\* and --max_tokens as an int; argparse exits otherwise
parse_ok(a) ==
    /\ a.prompt # None
    /\ a.temperature # None => a.temperature[1].valid
    /\ a.max_tokens # None => a.max_tokens[1].valid

parse_args(a) ==
    [prompt |-> a.prompt[1],
     model |-> IF a.model = None THEN DEFAULT_MODEL ELSE a.model[1],
     temperature |-> IF a.temperature = None THEN DEFAULT_TEMPERATURE
                     ELSE a.temperature[1].value,
     max_tokens |-> IF a.max_tokens = None THEN DEFAULT_MAX_TOKENS
                    ELSE a.max_tokens[1].value,
     canvas |-> None]

\* a slip in main: the header is printed before the call, so a failure prints both
main_output_header_first(res) ==
    IF res.kind = "return"
    THEN <<Stdout(MAIN_OK), Stdout(res.text)>>
    ELSE <<Stdout(MAIN_OK), Stdout(MAIN_ERR \o res.text)>>

\* what main prints once rephrase_prompt has ended
main_output(res) ==
    IF res.kind = "return"
    THEN <<Stdout(MAIN_OK), Stdout(res.text)>>
    ELSE <<Stdout(MAIN_ERR \o res.text)>>

\* a run of a front end has ended: normally, by sys.exit, by st.stop or by an
\* exception nothing caught
Ended == pc \in {"done", "exited", "stopped", "uncaught"}

\* main up to the call of rephrase_prompt
main(a) ==
    /\ pc = "idle"
    /\ frontend' = "cli"
    /\ argv' = Some(a)
    /\ IF parse_ok(a)
       THEN /\ call' = Some(parse_args(a))
            /\ printed' = <<>>
            /\ pc' = "call"
       ELSE /\ call' = None
            /\ printed' = <<Stderr(USAGE_ERROR)>>
            /\ pc' = "exited"
    /\ UNCHANGED <<environ, form, system_message, requests, remote, result, ui>>

\* main after rephrase_prompt: the try's prints, or the except's
main_finish ==
    /\ frontend = "cli"
    /\ pc \in {"returned", "raised"}
    /\ printed' = printed \o main_output(result)
    /\ pc' = "done"
    /\ UNCHANGED <<frontend, environ, argv, form, call, system_message, requests, remote,
                   result, ui>>

----------------------------------------------------------------------------
(* The form: the "Optimize Prompt" button *)

Show(widget, text) == [widget |-> widget, text |-> text]

\* streamlit_app.PromptCanvas: __post_init__ turns a None list into []
UiPromptCanvas(persona, audience, task, steps, context, references, output_format, tonality) ==
    PromptCanvas(persona, audience, task,
                 IF steps = None THEN Some(<<>>) ELSE steps,
                 context,
                 IF references = None THEN Some(<<>>) ELSE references,
                 output_format, tonality)

\* [s.strip() for s in text.split('\n') if text and s.strip()]
form_list(text) ==
    LET pieces == split(text, "\n")
        kept == SelectSeq(pieces, LAMBDA s : Truthy(text) /\ Truthy(strip(s)))
    IN  [i \in 1..Len(kept) |-> strip(kept[i])]

form_canvas(f) ==
    UiPromptCanvas(f.persona, f.audience, f.task, Some(form_list(f.steps)), f.context,
                   Some(form_list(f.references)), f.output_format, f.tonality)

\* the arguments of the call the click makes: the canvas call when the canvas prompt
\* is non-empty, the basic call otherwise
click_call(f) ==
    IF Truthy(f.canvas_prompt)
    THEN [prompt |-> f.canvas_prompt, model |-> f.model, temperature |-> f.temperature,
          max_tokens |-> f.max_tokens, canvas |-> Some(form_canvas(f))]
    ELSE [prompt |-> f.user_prompt, model |-> f.model, temperature |-> f.temperature,
          max_tokens |-> f.max_tokens, canvas |-> None]

\* if not GROQ_API_KEY: st.sidebar.warning(...)
sidebar(f) ==
    IF Truthy(f.GROQ_API_KEY) THEN <<>> ELSE <<Show("sidebar.warning", UI_NO_KEY_SIDEBAR)>>

\* a slip under the button: the key is not looked at
click_branch_key_unchecked(f) ==
    IF Truthy(f.user_prompt) \/ Truthy(f.canvas_prompt) THEN "optimize"
    ELSE "no_prompt"

\* the branch of the if / elif / else under the button
click_branch(f) ==
    IF ~Truthy(f.GROQ_API_KEY) THEN "no_key"
    ELSE IF Truthy(f.user_prompt) \/ Truthy(f.canvas_prompt) THEN "optimize"
    ELSE "no_prompt"

\* the script run of a click, up to the call of rephrase_prompt
optimize_click(f, import) ==
    /\ pc = "idle"
    /\ frontend' = "ui"
    /\ form' = Some(f)
    /\ CASE click_branch(f) = "no_key" ->
                /\ ui' = sidebar(f) \o <<Show("error", UI_NO_KEY)>>
                /\ call' = None
                /\ pc' = "done"
                /\ UNCHANGED environ
         [] click_branch(f) = "optimize" ->
                /\ environ' = Some(f.GROQ_API_KEY)
                /\ IF import.ok
                   THEN /\ ui' = sidebar(f)
                        /\ call' = Some(click_call(f))
                        /\ pc' = "call"
                   ELSE /\ ui' = sidebar(f) \o <<Show("error", UI_IMPORT_ERR \o import.text)>>
                        /\ call' = None
                        /\ pc' = "stopped"
         [] OTHER ->
                /\ ui' = sidebar(f) \o <<Show("warning", UI_NO_PROMPT)>>
                /\ call' = None
                /\ pc' = "done"
                /\ UNCHANGED environ
    /\ UNCHANGED <<argv, system_message, requests, remote, result, printed>>

\* what the script shows once rephrase_prompt has ended: the result when it is
\* non-empty; an exception is not caught and Streamlit shows it
click_output(res) ==
    IF res.kind = "raise" THEN <<Show("exception", res.text)>>
    ELSE IF Truthy(res.text) THEN <<Show("subheader", UI_OPTIMIZED), Show("write", res.text)>>
    ELSE <<>>

optimize_finish ==
    /\ frontend = "ui"
    /\ pc \in {"returned", "raised"}
    /\ ui' = ui \o click_output(result)
    /\ pc' = IF result.kind = "raise" THEN "uncaught" ELSE "done"
    /\ UNCHANGED <<frontend, environ, argv, form, call, system_message, requests, remote,
                   result, printed>>

----------------------------------------------------------------------------
(* The next run: a new process of the command line, or the form's next script *)
(* run.  Only the process environment of the form's server outlives a run.    *)

rerun ==
    /\ Ended
    /\ pc' = "idle"
    /\ frontend' = "none"
    /\ argv' = None
    /\ form' = None
    /\ call' = None
    /\ system_message' = None
    /\ requests' = <<>>
    /\ remote' = None
    /\ result' = NoResult
    /\ printed' = <<>>
    /\ ui' = <<>>
    /\ UNCHANGED environ

----------------------------------------------------------------------------
(* Inputs *)

Prompts == {<<>>, <<"u">>, <<" ", "\"", "\n">>}

Keys == {<<>>, <<"g", "s", "k">>}

\* GROQ_API_KEY as the process starts: unset, or set (by the shell or a .env file)
InitialEnviron == {None, Some(<<"e", "n", "v">>)}

OTHER_MODEL == "llama3-8b-8192"

\* str(e) of an exception of the client library
ExceptionTexts == {<<>>, <<"C", "o", "n", "n", "e", "c", "t", "i", "o", "n", " ", "e", "r", "r", "o", "r", ".">>}

CliArgvs ==
    [prompt : {None} \cup {Some(p) : p \in Prompts},
     model : {None, Some(OTHER_MODEL)},
     temperature : {None, Some([valid |-> TRUE, value |-> 0]), Some([valid |-> FALSE, value |-> 0])},
     max_tokens : {None, Some([valid |-> TRUE, value |-> 1]), Some([valid |-> FALSE, value |-> 0])}]

\* the values of the scalar text fields of a canvas
Profiles ==
    {[persona |-> <<>>, audience |-> <<>>, task |-> <<>>, context |-> <<>>, tonality |-> <<>>],
     [persona |-> <<"1">>, audience |-> <<"2">>, task |-> <<"3">>, context |-> <<"4", "\n", "4">>,
      tonality |-> <<"6", " ">>],
     [persona |-> <<"7">>, audience |-> <<"7">>, task |-> <<"7">>, context |-> <<"7">>,
      tonality |-> <<"7">>]}

\* what is typed into the Steps and References areas, one entry per line
ListTexts ==
    {<<>>, PLACEHOLDER, <<" ", "8", "\n", "\n", "9", " ">>}

Settings ==
    {[model |-> DEFAULT_MODEL, temperature |-> DEFAULT_TEMPERATURE, max_tokens |-> DEFAULT_MAX_TOKENS],
     [model |-> OTHER_MODEL, temperature |-> 0, max_tokens |-> 1]}

Form(key, user_prompt, canvas_prompt, p, steps, references, output_format, s) ==
    [GROQ_API_KEY |-> key, user_prompt |-> user_prompt, persona |-> p.persona,
     audience |-> p.audience, task |-> p.task, steps |-> steps, context |-> p.context,
     references |-> references, output_format |-> output_format, tonality |-> p.tonality,
     canvas_prompt |-> canvas_prompt, model |-> s.model, temperature |-> s.temperature,
     max_tokens |-> s.max_tokens]

Forms ==
    {Form(k, u, c, p, st, rf, fmt, s) :
        k \in Keys, u \in {<<>>, <<"u">>}, c \in {<<>>, <<"c">>}, p \in Profiles,
        st \in ListTexts, rf \in ListTexts, fmt \in {FMT_NATURAL_TEXT, FMT_CODE},
        s \in Settings}

\* importing Grompt.py works, or raises
ImportOutcomes ==
    {[ok |-> TRUE, text |-> <<>>]} \cup {[ok |-> FALSE, text |-> e] : e \in ExceptionTexts}

\* Groq() works, or raises
ClientOutcomes ==
    {[ok |-> TRUE, text |-> <<>>]} \cup {[ok |-> FALSE, text |-> e] : e \in ExceptionTexts}

Alphabet == {"a", " ", "\n"}

Contents == SeqsUpTo(Alphabet, MaxLen)

Choice(content) == [message |-> [content |-> content]]

Response(choices) == [kind |-> "response", text |-> <<>>, choices |-> choices]

\* the request raises in the client, or a response comes back: with no choice, with
\* a null content, with a text, or with a second choice after the first
RemoteOutcomes ==
    {[kind |-> "error", text |-> e, choices |-> <<>>] : e \in ExceptionTexts}
        \cup {Response(<<>>), Response(<<Choice(None)>>)}
        \cup {Response(<<Choice(Some(c))>>) : c \in Contents}
        \cup {Response(<<Choice(Some(c)), Choice(Some(<<"b", " ">>))>>) : c \in {<<>>, <<" ", "a">>}}

----------------------------------------------------------------------------
(* The program: the two front ends around rephrase_prompt *)

Init ==
    /\ pc = "idle"
    /\ frontend = "none"
    /\ environ \in InitialEnviron
    /\ argv = None
    /\ form = None
    /\ call = None
    /\ system_message = None
    /\ requests = <<>>
    /\ remote = None
    /\ result = NoResult
    /\ printed = <<>>
    /\ ui = <<>>

Next ==
    \/ \E a \in CliArgvs : main(a)
    \/ main_finish
    \/ \E f \in Forms, i \in ImportOutcomes : optimize_click(f, i)
    \/ optimize_finish
    \/ \E c \in ClientOutcomes : rephrase_prompt_request(c)
    \/ \E o \in RemoteOutcomes : rephrase_prompt_response(o)
    \/ rerun

Spec == Init /\ [][Next]_vars

----------------------------------------------------------------------------
(* The renderer alone, over every canvas of the bounds *)

\* the elements of a steps or references list
ItemValues == {<<"8">>, PLACEHOLDER, <<>>}

OptionalLists == {None} \cup {Some(l) : l \in SeqsUpTo(ItemValues, MaxItems)}

Canvases ==
    {PromptCanvas(p.persona, p.audience, p.task, st, p.context, rf, fmt, p.tonality) :
        p \in Profiles, st \in OptionalLists, rf \in OptionalLists, fmt \in {FMT_CODE}}

RenderInputs ==
    [prompt : Prompts, canvas : {None} \cup {Some(c) : c \in Canvases},
     model : {DEFAULT_MODEL}, temperature : {DEFAULT_TEMPERATURE},
     max_tokens : {DEFAULT_MAX_TOKENS}]

InitRender ==
    /\ pc = "render"
    /\ frontend = "render"
    /\ environ = None
    /\ argv = None
    /\ form = None
    /\ call \in {Some(i) : i \in RenderInputs}
    /\ system_message = None
    /\ requests = <<>>
    /\ remote = None
    /\ result = NoResult
    /\ printed = <<>>
    /\ ui = <<>>

\* a direct call of craft_system_message(canvas, prompt)
craft_call ==
    /\ pc = "render"
    /\ system_message' = Some(craft_system_message(call[1].canvas, call[1].prompt))
    /\ pc' = "rendered"
    /\ UNCHANGED <<frontend, environ, argv, form, call, requests, remote, result, printed, ui>>

RenderNext == craft_call

RenderSpec == InitRender /\ [][RenderNext]_vars

----------------------------------------------------------------------------
(* Properties *)

\* the content of the one message of the first request issued
SentContent == requests[1].messages[1].content

\* C1: every failure inside rephrase_prompt (Groq() raising, the request raising, an
\* empty choices list, a null content) reaches the caller as one raised Exception whose
\* message is "Prompt engineering error: " followed by the text of the underlying
\* exception; none escapes unwrapped and none becomes a normal return value.
C1_FailuresWrapped ==
    remote # None =>
        LET o == remote[1]
        IN  /\ o.kind \in {"client_error", "error"} =>
                result = [kind |-> "raise", text |-> ERR_PREFIX \o o.text]
            /\ (o.kind = "response" /\ o.choices = <<>>) =>
                result = [kind |-> "raise", text |-> ERR_PREFIX \o INDEX_ERROR]
            /\ (o.kind = "response" /\ o.choices # <<>>
                    /\ o.choices[1].message.content = None) =>
                result = [kind |-> "raise", text |-> ERR_PREFIX \o ATTRIBUTE_ERROR]
            /\ (o.kind = "response" /\ o.choices # <<>>
                    /\ o.choices[1].message.content # None) =>
                result.kind = "return"

\* C1 witness: a response without choices came back and the caller got the wrapped
\* IndexError
C1_Witness ==
    /\ remote # None
    /\ remote[1].kind = "response"
    /\ remote[1].choices = <<>>
    /\ result.kind = "raise"
    /\ pc = "raised"

\* C2: the rendered message contains every field value verbatim: persona, audience,
\* task, context, output_format and tonality, every element of steps and of references;
\* without a canvas it contains the prompt.
C2_FieldsVerbatim ==
    pc = "rendered" =>
        LET m == system_message[1]
            a == call[1]
        IN  IF a.canvas # None
            THEN LET c == a.canvas[1]
                 IN  /\ Contains(m, c.persona)
                     /\ Contains(m, c.audience)
                     /\ Contains(m, c.task)
                     /\ Contains(m, c.context)
                     /\ Contains(m, c.output_format)
                     /\ Contains(m, c.tonality)
                     /\ c.steps # None =>
                            \A i \in 1..Len(c.steps[1]) : Contains(m, c.steps[1][i])
                     /\ c.references # None =>
                            \A i \in 1..Len(c.references[1]) : Contains(m, c.references[1][i])
            ELSE Contains(m, a.prompt)

\* C2 witness: a canvas with distinct field values, steps and references was rendered
C2_Witness ==
    /\ pc = "rendered"
    /\ call[1].canvas # None
    /\ call[1].canvas[1].tonality = <<"6", " ">>
    /\ call[1].canvas[1].steps = Some(<<<<"8">>, PLACEHOLDER>>)
    /\ call[1].canvas[1].references = Some(<<<<"8">>>>)

\* the canvas message with the given texts in its steps section and on its
\* references line
C3_Layout(c, steps_section, references_line) ==
    T_persona \o c.persona \o T_audience \o c.audience \o T_task \o c.task
        \o T_steps \o steps_section \o T_context \o c.context
        \o T_references \o references_line
        \o T_output_format \o c.output_format \o T_tonality \o c.tonality

RECURSIVE C3_StepLines(_)
\* the steps in order, one per line, each after "- "
C3_StepLines(l) ==
    IF Len(l) = 1 THEN <<"-", " ">> \o l[1]
    ELSE <<"-", " ">> \o l[1] \o <<"\n">> \o C3_StepLines(Tail(l))

RECURSIVE C3_ReferenceLine(_)
\* the references in order, ", " between them
C3_ReferenceLine(l) ==
    IF Len(l) = 1 THEN l[1]
    ELSE l[1] \o <<",", " ">> \o C3_ReferenceLine(Tail(l))

C3_Empty(o) == o = None \/ o[1] = <<>>

C3_StepsSection(c) ==
    IF C3_Empty(c.steps) THEN <<"N", "o", "n", "e">> ELSE C3_StepLines(c.steps[1])

C3_ReferencesLine(c) ==
    IF C3_Empty(c.references) THEN <<"N", "o", "n", "e">>
    ELSE C3_ReferenceLine(c.references[1])

\* C3 as amended: an empty or None steps field renders the steps section as exactly
\* "None" and an empty or None references field renders the references line as exactly
\* "None"; non-empty steps render in order, each after "- ", a line break between
\* them, which is never the text "None"; non-empty references render in order joined
\* by ", ".
C3_PlaceholderOrItems ==
    (pc = "rendered" /\ call[1].canvas # None) =>
        LET c == call[1].canvas[1]
        IN  /\ system_message[1] = C3_Layout(c, C3_StepsSection(c), C3_ReferencesLine(c))
            /\ ~C3_Empty(c.steps) => C3_StepsSection(c) # <<"N", "o", "n", "e">>

\* C3 as stated: as above, and whenever a field is non-empty its section is not the
\* placeholder text.
C3_Original ==
    (pc = "rendered" /\ call[1].canvas # None) =>
        LET c == call[1].canvas[1]
        IN  /\ system_message[1] = C3_Layout(c, C3_StepsSection(c), C3_ReferencesLine(c))
            /\ ~C3_Empty(c.steps) => C3_StepsSection(c) # <<"N", "o", "n", "e">>
            /\ ~C3_Empty(c.references) => C3_ReferencesLine(c) # <<"N", "o", "n", "e">>

\* C3 witness: a canvas with None steps and two references was rendered
C3_Witness ==
    /\ pc = "rendered"
    /\ call[1].canvas # None
    /\ call[1].canvas[1].steps = None
    /\ call[1].canvas[1].references # None
    /\ Len(call[1].canvas[1].references[1]) = 2
    /\ call[1].canvas[1].references[1][1] # <<>>

\* C5: an invocation of rephrase_prompt issues at most one request and never a second
\* one after a failure; the request carries exactly one message, the text rendered
\* from the call's canvas and prompt and nothing of an earlier call, with the caller's
\* model, temperature and max_tokens.
C5_OneRequest ==
    /\ Len(requests) <= 1
    /\ pc \in {"idle", "call"} => requests = <<>>
    /\ requests # <<>> =>
        /\ call # None
        /\ Len(requests[1].messages) = 1
        /\ requests[1].messages[1].role = "user"
        /\ requests[1].messages[1].content
               = craft_system_message(call[1].canvas, call[1].prompt)
        /\ requests[1].model = call[1].model
        /\ requests[1].temperature = call[1].temperature
        /\ requests[1].max_tokens = call[1].max_tokens

\* C5 witness: the request raised and rephrase_prompt ended with the one request issued
C5_Witness ==
    /\ pc = "raised"
    /\ remote # None
    /\ remote[1].kind = "error"
    /\ Len(requests) = 1

\* C6: on success rephrase_prompt returns the content of the first choice with its
\* leading and trailing whitespace removed and nothing else changed: the returned text
\* is the content without a whitespace-only prefix and suffix, neither begins nor ends
\* with whitespace, and stripping it again gives it back.
C6_Trimmed ==
    result.kind = "return" =>
        LET content == remote[1].choices[1].message.content[1]
            text == result.text
        IN  /\ \E i \in 0..Len(content), j \in 0..Len(content) :
                /\ i <= j
                /\ text = SubSeq(content, i + 1, j)
                /\ \A k \in 1..i : content[k] \in Whitespace
                /\ \A k \in (j + 1)..Len(content) : content[k] \in Whitespace
            /\ text # <<>> => text[1] \notin Whitespace /\ text[Len(text)] \notin Whitespace
            /\ strip(text) = text

\* C6 witness: a content with whitespace on both sides came back
C6_Witness ==
    /\ result.kind = "return"
    /\ remote[1].choices[1].message.content[1] = <<"\n", "a", " ">>
    /\ result.text = <<"a">>

\* a click step of the form
C7_Click == pc = "idle" /\ frontend' = "ui"

C7_Step ==
    /\ (frontend' = "ui" /\ requests' # <<>>) =>
        /\ Truthy(form'[1].GROQ_API_KEY)
        /\ Truthy(form'[1].user_prompt) \/ Truthy(form'[1].canvas_prompt)
        /\ environ' = Some(form'[1].GROQ_API_KEY)
    /\ (frontend = "ui" /\ requests = <<>> /\ requests' # <<>>) =>
        environ = Some(form[1].GROQ_API_KEY)
    /\ (C7_Click /\ ~Truthy(form'[1].GROQ_API_KEY)) =>
        /\ environ' = environ
        /\ \E i \in 1..Len(ui') : ui'[i] = [widget |-> "error", text |-> UI_NO_KEY]
        /\ requests' = <<>>
        /\ pc' = "done"
    /\ (C7_Click /\ Truthy(form'[1].GROQ_API_KEY)
            /\ ~Truthy(form'[1].user_prompt) /\ ~Truthy(form'[1].canvas_prompt)) =>
        /\ \E i \in 1..Len(ui') : ui'[i] = [widget |-> "warning", text |-> UI_NO_PROMPT]
        /\ requests' = <<>>
        /\ pc' = "done"

\* C7: in the form, a request is issued only when the entered key is non-empty and one
\* of the two prompts is non-empty, and GROQ_API_KEY is already set to the entered key
\* in the step before the request goes out; a click with an empty key shows the error
\* and leaves the environment as it was; a click with a key and no prompt shows the
\* warning and issues no request.
C7_KeyBeforeRequest == [][C7_Step]_vars

\* C7 witness: a click of the form led to a request
C7_Witness ==
    /\ frontend = "ui"
    /\ pc = "inflight"
    /\ requests # <<>>
    /\ environ = Some(form[1].GROQ_API_KEY)

\* what main prints for the way rephrase_prompt ended
C8_OneOutcome ==
    \/ /\ result.kind = "return"
       /\ printed = <<[stream |-> "stdout", text |-> MAIN_OK],
                      [stream |-> "stdout", text |-> result.text]>>
    \/ /\ result.kind = "raise"
       /\ printed = <<[stream |-> "stdout", text |-> MAIN_ERR \o result.text]>>

\* C8 as amended: whenever the arguments parse, main ends by returning after it
\* printed exactly one of the two outcomes, "Rephrased prompt:" and the text on
\* success or one "Error: " line with the failure's message, never both and never
\* neither, and no Exception leaves main; while it runs it can always take its next
\* step.  When the arguments do not parse, argparse exits main with its usage
\* message and neither outcome is printed.
C8_MainOutcome ==
    frontend = "cli" =>
        /\ pc # "uncaught"
        /\ (pc = "done" /\ call # None) => C8_OneOutcome
        /\ pc = "done" => call # None
        /\ pc = "exited" => (call = None /\ printed = <<[stream |-> "stderr", text |-> USAGE_ERROR]>>)
        /\ pc \in {"call", "inflight"} => printed = <<>>
        /\ pc \in {"call", "inflight", "returned", "raised"} => ENABLED Next

\* C8 as stated: every run of main ends by returning with exactly one of the two
\* outcomes printed.
C8_Original ==
    (frontend = "cli" /\ Ended) => (pc = "done" /\ C8_OneOutcome)

\* C8 witness: rephrase_prompt raised and main has printed and returned
C8_Witness ==
    /\ frontend = "cli"
    /\ pc = "done"
    /\ result.kind = "raise"
    /\ Len(printed) = 1

\* C9: from the call of rephrase_prompt to its end, by return or by raise, the canvas
\* it was given keeps all eight fields, the contents and order of steps and references
\* included.
C9_CanvasUnchanged ==
    [][(pc \in {"call", "inflight"} /\ call # None) =>
            (call' # None /\ call'[1].canvas = call[1].canvas)]_vars

\* C9 witness: a call with a canvas that has steps and references ended by a raise
C9_Witness ==
    /\ pc = "raised"
    /\ requests # <<>>
    /\ call[1].canvas # None
    /\ Len(call[1].canvas[1].steps[1]) = 2
    /\ call[1].canvas[1].references[1] # <<>>

====
